---- MODULE Spec2Model ----
(***************************************************************************)
(* Model of the query API routes of the Thinkubator RAG frontend.          *)
(*                                                                         *)
(*   direct  : the route that runs the RAG pipeline itself (embedding,     *)
(*             Supabase similarity search with a direct-query fallback,    *)
(*             answer generation)                                          *)
(*   proxy   : the route that validates the query and calls the backend    *)
(*             API or the Vercel Python function, then transforms the      *)
(*             response                                                    *)
(*   forward : the route that forwards the request body to the FastAPI     *)
(*             backend unchanged                                           *)
(*                                                                         *)
(* One request is followed from its arrival to its response.  Every await  *)
(* of the handler is a position (pc); the outcome of the awaited external  *)
(* call is chosen by the environment.  Strings that are built from         *)
(* templates are sequences of their parts, so that "the answer contains    *)
(* the query" and "the body contains an error text" are checkable.         *)
(*                                                                         *)
(* A second specification, SpecPage, follows the page (Home), its query    *)
(* input and the chat history sidebar while they talk to the backend:      *)
(* every fetch is a request in flight that the backend answers in one      *)
(* step and whose response or rejection the page handles in another, so    *)
(* that handlers overlap as they do in the browser.  The backend's         *)
(* session store is not part of the frontend sources; it is modelled as    *)
(* its interface is specified (save, get, list, delete).                   *)
(***************************************************************************)
EXTENDS Integers, Sequences, FiniteSets, TLC

VARIABLES
    route,      \* which route file handles the request
    env,        \* process.env of the server
    body,       \* the request body as sent by the caller
    pc,         \* position of the handler
    query,      \* const query = body.query
    console,    \* console.log lines written so far (stage markers, fallback notices)
    calls,      \* number of external calls issued, per kind
    outcomes,   \* what each external call answered (history)
    similarDocs,\* result of searchSupabase
    response,   \* the response returned to the caller
    elapsed,    \* Date.now() - startTime, in milliseconds
    target,     \* the backend the proxy route called
    \* the page (page.tsx)
    result,             \* useState<QueryResult | null>(null)
    loading,            \* useState(false)
    error,              \* useState<string | null>(null)
    selectedSessionId,  \* useState<string | undefined>()
    sidebarRefreshTrigger, \* useState(0)
    \* the chat history sidebar (ChatHistorySidebar)
    sessions,           \* useState<ChatSession[]>([])
    sbLoading,          \* the sidebar's own loading, useState(true)
    sbError,            \* the sidebar's own error
    loadingSessionId,   \* row that shows a spinner
    deletingSessionId,  \* row whose DELETE is outstanding
    showDeleteConfirm,  \* row that shows the confirmation dialog
    refreshSeen,        \* value of refreshTrigger the fetchSessions effect last ran for
    \* the backend the page talks to
    store,              \* the sessions the session store holds, newest first
    storageUp,          \* whether the session store is available
    \* the network between page and backend
    inflight,           \* requests of the page that have not settled
    nextRid,            \* number the next request gets
    history,            \* what has been saved, deleted and answered so far
    \* the logger (utils/logger.ts)
    logs,               \* private logs: LogEntry[]
    logged,             \* number of calls of log so far
    \* the connection tester (utils/connectionTest.ts)
    tpc,                \* position of the running connection test
    healthSeen,         \* what the health endpoint answered to the last test
    healthResult,       \* the BackendHealthStatus last returned by testBackendHealth
    apiResult,          \* the ConnectionTestResult last returned by testBackendAPI
    overall,            \* overall of the last runFullConnectionTest
    checks              \* number of health tests started

routeVars == <<route, env, body, pc, query, console, calls, outcomes, similarDocs, response,
               elapsed, target>>

pageVars == <<result, loading, error, selectedSessionId, sidebarRefreshTrigger>>

sidebarVars == <<sessions, sbLoading, sbError, loadingSessionId, deletingSessionId,
                 showDeleteConfirm, refreshSeen>>

backendVars == <<store, storageUp>>

netVars == <<inflight, nextRid, history>>

uiVars == <<pageVars, sidebarVars, backendVars, netVars>>

loggerVars == <<logs, logged>>

testerVars == <<tpc, healthSeen, healthResult, apiResult, overall, checks>>

utilVars == <<loggerVars, testerVars>>

vars == <<routeVars, uiVars, utilVars>>

----------------------------------------------------------------------------
(* Bounds *)

MaxRows == 6            \* most rows a store or backend answer carries
MaxTicks == 4           \* clock ticks followed while a request is pending
TickMs == 20000         \* milliseconds per clock tick
MaxRequests == 3        \* requests the page sends while it is followed
MaxChunks == 2          \* most chunks an answer shown by the page carries
MaxLogCalls == 1100     \* calls of the logger that are followed
MaxChecks == 2          \* connection tests that are started
FreeCalls == 3          \* calls of the logger up to which the level of the entry is open

(* Program constants *)

K == 5                  \* searchSupabase(queryEmbedding, 5)
QueryTimeoutMs == 60000  \* AbortSignal.timeout(60000)
CollapsedRows == 3      \* sessions.slice(0, 3)
MaxLogs == 1000         \* this.logs.slice(-1000)

----------------------------------------------------------------------------
(* JavaScript values *)

Undefined == "undefined"

QUndefined == [t |-> "undefined", v |-> "undefined"]
QNull      == [t |-> "null", v |-> "null"]
QString(s) == [t |-> "string", v |-> s]
QNumber(s) == [t |-> "number", v |-> s]
QObject    == [t |-> "object", v |-> "[object Object]"]

QueryValues ==
    { QUndefined, QNull, QString(""), QString("What is circular economy?"),
      QString("circularity gap"), QNumber("0"), QNumber("7"), QObject }

\* a check for a missing query only (query === undefined)
IsFalsyMissingOnly(q) == q.t = "undefined"

\* !query
IsFalsy(q) ==
    \/ q.t \in {"undefined", "null"}
    \/ q.t = "string" /\ q.v = ""
    \/ q.t = "number" /\ q.v = "0"

\* `${query}`
ToStr(q) == q.v

\* a || b on strings
OrElse(a, b) == IF a \in {Undefined, ""} THEN b ELSE a

Bodies ==
    { [kind |-> "invalid_json", query |-> QUndefined],
      [kind |-> "null", query |-> QUndefined] }
    \cup { [kind |-> "object", query |-> q] : q \in QueryValues }

\* await request.json(); body.query  -- "ok" or the message of the exception thrown
ParseError(b) ==
    CASE b.kind = "invalid_json" -> "Unexpected token in JSON"
      [] b.kind = "null" -> "Cannot read properties of null (reading 'query')"
      [] OTHER -> "ok"

Routes == {"direct", "proxy", "forward"}

Envs ==
    [ GEMINI_API_KEY : BOOLEAN,
      SUPABASE : BOOLEAN,
      NODE_ENV : {"development", "production"},
      VERCEL : {"1", Undefined},
      VERCEL_URL : {"app.vercel.app", Undefined} ]

----------------------------------------------------------------------------
(* Responses *)

NoChunks == <<>>

NoResponse ==
    [status |-> 0, answer |-> <<>>, chunks |-> NoChunks, session_id |-> "null",
     error_fallback |-> FALSE, detail |-> <<>>]

JsonDetail(st, parts) ==
    [status |-> st, answer |-> <<>>, chunks |-> NoChunks, session_id |-> "null",
     error_fallback |-> FALSE, detail |-> parts]

\* { detail: "Query is required" }, { status: 400 }
ValidationResponse == JsonDetail(400, <<"Query is required">>)

\* { detail: `API route error: ${error.message}` }, { status: 500 }
RouteErrorResponse(msg) == JsonDetail(500, <<"API route error: ", msg>>)

FallbackAnswer(q) ==
    << "I encountered an issue accessing the document database for your query \"",
       ToStr(q),
       "\". This appears to be a temporary technical issue. Please try again later or contact support if the problem persists." >>

\* a mock response that lacks the error_fallback field
MockResponseUnflagged(q) ==
    [status |-> 200, answer |-> FallbackAnswer(q), chunks |-> NoChunks,
     session_id |-> "null", error_fallback |-> FALSE, detail |-> <<>>]

\* mockResponse of the catch block
MockResponse(q) ==
    [status |-> 200, answer |-> FallbackAnswer(q), chunks |-> NoChunks,
     session_id |-> "null", error_fallback |-> TRUE, detail |-> <<>>]

CannedAnswer ==
    << "I do not have enough information to answer your question. No relevant documents were found." >>

NoDocsResponse ==
    [status |-> 200, answer |-> CannedAnswer, chunks |-> NoChunks,
     session_id |-> "null", error_fallback |-> FALSE, detail |-> <<>>]

AnswerResponse(answer, docs) ==
    [status |-> 200, answer |-> answer, chunks |-> docs,
     session_id |-> "null", error_fallback |-> FALSE, detail |-> <<>>]

----------------------------------------------------------------------------
(* Rows of the store and chunks *)

RowPool ==
    << [content |-> "Circular economy keeps materials in use.", document |-> Undefined,
        metadata |-> "{document_name: A}"],
       [content |-> "", document |-> Undefined, metadata |-> Undefined],
       [content |-> "The circularity gap measures lost materials.", document |-> Undefined,
        metadata |-> "{document_name: B}"] >>

Rows(n) == [i \in 1..n |-> RowPool[(i % 3) + 1]]

\* results.map(result => ({ document: result.content || "", metadata: result.metadata || {} }))
MapRow(r) ==
    [content |-> Undefined, document |-> OrElse(r.content, ""),
     metadata |-> OrElse(r.metadata, "{}")]

MapRows(rows) == [i \in 1..Len(rows) |-> MapRow(rows[i])]

----------------------------------------------------------------------------
(* Console lines *)

LogEmbedding  == "Generating query embedding..."
LogSearching  == "Searching Supabase database..."
LogRpcFailed  == "RPC search failed, trying direct query..."
LogGenerating == "Generating answer..."
LogCompleted  == "RAG pipeline completed"
LogFallingBack == "Falling back to mock response..."

----------------------------------------------------------------------------
(* The page and the chat history sidebar: values *)

\* a session id that is null or undefined
NoSession == 0

\* an error state that is null
NoError == <<>>

\* useState<QueryResult | null>(null)
NullResult ==
    [isNull |-> TRUE, answer |-> <<>>, chunks |-> <<>>, session_id |-> NoSession,
     query |-> <<>>]

\* what the user has typed into the query input, character by character
InputTexts ==
    { <<>>, <<" ">>, <<"c", "e">>, <<" ", "c", "e", " ">> }

IsSpace(c) == c \in {" ", "\t", "\n"}

RECURSIVE TrimStart(_)
TrimStart(s) ==
    IF s # <<>> /\ IsSpace(Head(s)) THEN TrimStart(Tail(s)) ELSE s

RECURSIVE TrimEnd(_)
TrimEnd(s) ==
    IF s # <<>> /\ IsSpace(s[Len(s)]) THEN TrimEnd(SubSeq(s, 1, Len(s) - 1)) ELSE s

\* a form that passes the input on as typed
TrimNothing(s) == s

\* query.trim()
Trim(s) == TrimEnd(TrimStart(s))

ChunkCounts == {0, MaxChunks}

\* the chunks of a backend answer, as the page receives them
ChunkTexts ==
    << "Circular economy keeps materials in use.",
       "The circularity gap measures lost materials." >>

PageChunks(n) ==
    [i \in 1..n |-> [document |-> ChunkTexts[(i % 2) + 1], metadata |-> "{document_name: A}"]]

\* the session the store holds when the page is opened
ExistingSession ==
    [id |-> 1, query |-> <<"o", "l", "d">>,
     answer |-> <<"The circularity gap measures lost materials.">>,
     chunks |-> PageChunks(1)]

\* what the session store has been asked so far: every session ever saved, every id whose
\* delete succeeded, and every answer to a get
NoHistory(up) ==
    [saved |-> IF up THEN {ExistingSession} ELSE {}, deleted |-> {}, gets |-> {}]

\* what GET /user/current/sessions lists of a stored session
Summary(s) == [id |-> s.id, query |-> s.query, chunks_count |-> Len(s.chunks)]

Summaries(st) == [i \in 1..Len(st) |-> Summary(st[i])]

\* the state of Home and ChatHistorySidebar after their first render, or after the
\* fetchSessions of the first render has brought the list (listed), and of the backend
\* with its session store available or not (up)
PageMounted(up, listed) ==
    /\ result = NullResult
    /\ loading = FALSE
    /\ error = NoError
    /\ selectedSessionId = NoSession
    /\ sidebarRefreshTrigger = 0
    /\ sessions = IF listed THEN Summaries(<<ExistingSession>>) ELSE <<>>
    /\ sbLoading = ~listed
    /\ sbError = NoError
    /\ loadingSessionId = NoSession
    /\ deletingSessionId = NoSession
    /\ showDeleteConfirm = NoSession
    /\ refreshSeen = IF listed THEN 0 ELSE -1
    /\ store = IF up THEN <<ExistingSession>> ELSE <<>>
    /\ storageUp = up
    /\ inflight = {}
    /\ nextRid = 1
    /\ history = NoHistory(up)

----------------------------------------------------------------------------
(* The logger and the connection tester: values *)

Levels == <<"debug", "info", "warn", "error">>

\* const entry: LogEntry = { timestamp, level, category, message, ... }; seq numbers the
\* calls of log and stands for the timestamp
Entry(seq, level, category, message) ==
    [seq |-> seq, level |-> level, category |-> category, message |-> message]

\* a log store that keeps its oldest entries
KeepOldest(l) == IF Len(l) > MaxLogs THEN SubSeq(l, 1, MaxLogs) ELSE l

\* if (this.logs.length > 1000) this.logs = this.logs.slice(-1000)
KeepLast(l) == IF Len(l) > MaxLogs THEN SubSeq(l, Len(l) - MaxLogs + 1, Len(l)) ELSE l

\* Logger.log applied to the store l as call number n
Logged(l, n, level, category, message) ==
    KeepLast(Append(l, Entry(n, level, category, message)))

\* BackendHealthStatus and ConnectionTestResult before any test has returned
NoHealth == [status |-> "none", pipeline_initialized |-> "undefined", error |-> <<>>]
NoApi == [success |-> FALSE, status |-> 0, error |-> <<>>, healthCheck |-> FALSE]

\* the body of a health response, and no body
HealthBody(st, pi) == [status |-> st, pipeline_initialized |-> pi]
NoBody == HealthBody("none", "undefined")
NoHealthResponse == [outcome |-> "none", status |-> 0, json |-> FALSE, body |-> NoBody]

\* the module state after logger.ts and connectionTest.ts have been loaded: both
\* constructors have logged once
UtilsLoaded ==
    /\ logs = Logged(Logged(<<>>, 1, "info", "general", "Logger initialized"),
                     2, "info", "network", "ConnectionTester initialized")
    /\ logged = 2
    /\ tpc = "idle"
    /\ healthSeen = NoHealthResponse
    /\ healthResult = NoHealth
    /\ apiResult = NoApi
    /\ overall = FALSE
    /\ checks = 0

----------------------------------------------------------------------------
(* The state of a request *)

NoCalls == [embed |-> 0, search |-> 0, fallback |-> 0, generate |-> 0, backend |-> 0,
            persist |-> 0]
NoOutcomes == [embed |-> "none", search |-> "none", fallback |-> "none", generate |-> "none",
               backend |-> "none", rows |-> <<>>]

Init ==
    /\ route \in Routes
    /\ env \in Envs
    /\ body \in Bodies
    /\ pc = "received"
    /\ query = QUndefined
    /\ console = <<>>
    /\ calls = NoCalls
    /\ outcomes = NoOutcomes
    /\ similarDocs = NoChunks
    /\ response = NoResponse
    /\ elapsed = 0
    /\ target = "none"
    /\ PageMounted(TRUE, FALSE)
    /\ UtilsLoaded

\* return NextResponse.json(r)
Respond(r) ==
    /\ response' = r
    /\ pc' = "responded"

\* catch (ragError): log and return the mock response
RagFailed(q, log) ==
    /\ console' = Append(log, LogFallingBack)
    /\ Respond(MockResponse(q))

\* generateEmbedding up to its fetch
StartEmbedding(q) ==
    IF ~env.GEMINI_API_KEY
    THEN /\ RagFailed(q, Append(console, LogEmbedding))
         /\ UNCHANGED calls
    ELSE /\ console' = Append(console, LogEmbedding)
         /\ calls' = [calls EXCEPT !.embed = @ + 1]
         /\ pc' = "embedding"
         /\ UNCHANGED response

\* POST of the direct route up to its first await of an external call
DirectReceive ==
    /\ route = "direct"
    /\ pc = "received"
    /\ IF ParseError(body) # "ok"
       THEN /\ Respond(RouteErrorResponse(ParseError(body)))
            /\ UNCHANGED <<query, console, calls>>
       ELSE /\ query' = body.query
            /\ IF IsFalsy(body.query)
               THEN /\ Respond(ValidationResponse)
                    /\ UNCHANGED <<console, calls>>
               ELSE StartEmbedding(body.query)
    /\ UNCHANGED <<uiVars, utilVars, route, env, body, outcomes, similarDocs, elapsed, target>>

\* a length test that never holds
NoDocsNever(docs) == FALSE

\* similarDocs.length === 0
NoDocs(docs) == Len(docs) = 0

\* generateAnswer up to its fetch
StartGeneration(q, log) ==
    IF ~env.GEMINI_API_KEY
    THEN /\ RagFailed(q, Append(log, LogGenerating))
         /\ UNCHANGED calls
    ELSE /\ console' = Append(log, LogGenerating)
         /\ calls' = [calls EXCEPT !.generate = @ + 1]
         /\ pc' = "generating"
         /\ UNCHANGED response

\* a search step that goes on to generation without searching
StartSearchSkipped(q, log) == StartGeneration(q, log)

\* searchSupabase up to its fetch of the RPC
StartSearch(q, log) ==
    IF ~env.SUPABASE
    THEN /\ RagFailed(q, Append(log, LogSearching))
         /\ UNCHANGED calls
    ELSE /\ console' = Append(log, LogSearching)
         /\ calls' = [calls EXCEPT !.search = @ + 1]
         /\ pc' = "retrieving"
         /\ UNCHANGED response

FetchOutcomes == {"reject", "not_ok", "ok_malformed", "ok"}

\* the embedding fetch settles; generateEmbedding returns or throws
EmbedReturn ==
    /\ route = "direct"
    /\ pc = "embedding"
    /\ \E o \in FetchOutcomes :
        /\ outcomes' = [outcomes EXCEPT !.embed = o]
        /\ IF o = "ok"
           THEN StartSearch(query, console)
           ELSE RagFailed(query, console) /\ UNCHANGED calls
    /\ UNCHANGED <<uiVars, utilVars, route, env, body, query, similarDocs, elapsed, target>>

\* POST after searchSupabase has returned docs
AfterSearch(q, docs, log) ==
    /\ similarDocs' = docs
    /\ IF NoDocs(docs)
       THEN /\ Respond(NoDocsResponse)
            /\ console' = log
            /\ UNCHANGED calls
       ELSE StartGeneration(q, log)

SearchOutcomes == {"reject", "not_ok", "not_ok_unreadable", "ok_malformed", "ok"}

\* the RPC response has a status that makes searchSupabase try the direct query
RpcFailed(o) == o = "not_ok"

\* a fallback that writes no console line
NoteRpcFailedSilent(log) == log

\* console.log('RPC search failed, trying direct query...')
NoteRpcFailed(log) == Append(log, LogRpcFailed)

\* the match_documents RPC fetch settles
SearchReturn ==
    /\ route = "direct"
    /\ pc = "retrieving"
    /\ \E o \in SearchOutcomes, n \in 0..MaxRows :
        /\ o # "ok" => n = 0
        /\ outcomes' = [outcomes EXCEPT !.search = o, !.rows = Rows(n)]
        /\ CASE RpcFailed(o) ->
                  /\ console' = NoteRpcFailed(console)
                  /\ calls' = [calls EXCEPT !.fallback = @ + 1]
                  /\ pc' = "fallback"
                  /\ UNCHANGED <<response, similarDocs>>
             [] o = "ok" -> AfterSearch(query, MapRows(Rows(n)), console)
             [] OTHER ->
                  /\ RagFailed(query, console)
                  /\ UNCHANGED <<calls, similarDocs>>
    /\ UNCHANGED <<uiVars, utilVars, route, env, body, query, elapsed, target>>

\* a fallback that drops the rows it fetched
FallbackDocsDropped(rows) == <<>>

\* const results = await fallbackResponse.json(); return results.map(...)
FallbackDocs(rows) == MapRows(rows)

\* the direct document_embeddings fetch settles
FallbackReturn ==
    /\ route = "direct"
    /\ pc = "fallback"
    /\ \E o \in FetchOutcomes, n \in 0..MaxRows :
        /\ o # "ok" => n = 0
        /\ outcomes' = [outcomes EXCEPT !.fallback = o, !.rows = Rows(n)]
        /\ IF o = "ok"
           THEN AfterSearch(query, FallbackDocs(Rows(n)), console)
           ELSE /\ RagFailed(query, console)
                /\ UNCHANGED <<calls, similarDocs>>
    /\ UNCHANGED <<uiVars, utilVars, route, env, body, query, elapsed, target>>

GeneratedTexts == {"Circular economy is a model of production and consumption.", ""}

\* the generateContent fetch settles
GenerateReturn ==
    /\ route = "direct"
    /\ pc = "generating"
    /\ \E o \in FetchOutcomes, text \in GeneratedTexts :
        /\ outcomes' = [outcomes EXCEPT !.generate = o]
        /\ IF o = "ok"
           THEN /\ console' = Append(console, LogCompleted)
                /\ Respond(AnswerResponse(<<text>>, similarDocs))
           ELSE RagFailed(query, console)
    /\ UNCHANGED <<uiVars, utilVars, route, env, body, query, calls, similarDocs, elapsed, target>>

----------------------------------------------------------------------------
(* The proxy route *)

BChunkPool ==
    << [content |-> "Circular economy keeps materials in use.", document |-> Undefined,
        metadata |-> "{document_name: A}"],
       [content |-> Undefined, document |-> "The circularity gap measures lost materials.",
        metadata |-> Undefined],
       [content |-> "", document |-> Undefined, metadata |-> "{document_name: C}"] >>

BChunks(n) == [i \in 1..n |-> BChunkPool[(i % 3) + 1]]

BackendDatas ==
    { [answer |-> <<"Circular economy is a model of production and consumption.">>,
       chunks |-> BChunks(n), hasChunks |-> TRUE, session_id |-> sid,
       error_fallback |-> FALSE] : n \in 0..MaxRows, sid \in {"null", "sess-1"} }
    \cup
    { [answer |-> <<"I encountered an issue accessing the document database.">>,
       chunks |-> NoChunks, hasChunks |-> TRUE, session_id |-> "null",
       error_fallback |-> TRUE],
      [answer |-> <<"Circular economy is a model of production and consumption.">>,
       chunks |-> NoChunks, hasChunks |-> FALSE, session_id |-> "null",
       error_fallback |-> FALSE] }

BackendErrorTexts ==
    { "Traceback (most recent call last): RuntimeError: pipeline not initialized",
      "{\"detail\":\"Internal server error\"}" }

\* const isLocalDevelopment = isDevelopment && !process.env.VERCEL_URL
isLocalDevelopment(e) == e.NODE_ENV = "development" /\ e.VERCEL_URL = Undefined

\* the branch of POST that picks callBackendAPI or callVercelPythonFunction
BackendTarget(e) == IF isLocalDevelopment(e) THEN "backend_api" ELSE "python_function"

\* a transformation that reads the document field only
MapChunkDocumentOnly(c) ==
    [content |-> Undefined, document |-> OrElse(c.document, ""),
     metadata |-> OrElse(c.metadata, "{}")]

\* chunk => ({ document: chunk.content || chunk.document || "", metadata: chunk.metadata || {} })
MapChunk(c) ==
    [content |-> Undefined, document |-> OrElse(c.content, OrElse(c.document, "")),
     metadata |-> OrElse(c.metadata, "{}")]

\* transformedResponse
TransformedResponse(data) ==
    [status |-> 200, answer |-> data.answer,
     chunks |-> [i \in 1..Len(data.chunks) |-> MapChunk(data.chunks[i])],
     session_id |-> data.session_id, error_fallback |-> FALSE, detail |-> <<>>]

\* POST of the proxy route up to its await of the backend call
ProxyReceive ==
    /\ route = "proxy"
    /\ pc = "received"
    /\ IF ParseError(body) # "ok"
       THEN /\ Respond(RouteErrorResponse(ParseError(body)))
            /\ UNCHANGED <<query, calls, target>>
       ELSE /\ query' = body.query
            /\ IF IsFalsy(body.query)
               THEN /\ Respond(ValidationResponse)
                    /\ UNCHANGED <<calls, target>>
               ELSE /\ target' = BackendTarget(env)
                    /\ calls' = [calls EXCEPT !.backend = @ + 1]
                    /\ pc' = "calling_backend"
                    /\ UNCHANGED response
    /\ UNCHANGED <<uiVars, utilVars, route, env, body, console, outcomes, similarDocs, elapsed>>

\* the backend fetch of the proxy route settles
BackendReturn ==
    /\ route = "proxy"
    /\ pc = "calling_backend"
    /\ \E o \in FetchOutcomes, data \in BackendDatas :
        /\ outcomes' = [outcomes EXCEPT !.backend = o,
                                         !.rows = IF o = "ok" THEN data.chunks ELSE <<>>]
        /\ IF o = "ok" /\ data.hasChunks
           THEN /\ Respond(TransformedResponse(data))
                /\ UNCHANGED console
           ELSE RagFailed(query, console)
    /\ UNCHANGED <<uiVars, utilVars, route, env, body, query, calls, similarDocs, elapsed, target>>

----------------------------------------------------------------------------
(* The forwarding route *)

BackendErrorStatuses == {400, 404, 500}

\* { detail: `Backend error: ${response.status} - ${errorData}` }, { status: response.status }
BackendErrorResponse(st, errorData) ==
    JsonDetail(st, <<"Backend error: ", ToString(st), " - ", errorData>>)

\* NextResponse.json(data)
PassThrough(data) ==
    [status |-> 200, answer |-> data.answer, chunks |-> data.chunks,
     session_id |-> data.session_id, error_fallback |-> data.error_fallback, detail |-> <<>>]

\* POST of the forwarding route up to its await of the backend call
ForwardReceive ==
    /\ route = "forward"
    /\ pc = "received"
    /\ IF body.kind = "invalid_json"
       THEN /\ Respond(RouteErrorResponse(ParseError(body)))
            /\ UNCHANGED calls
       ELSE /\ calls' = [calls EXCEPT !.backend = @ + 1]
            /\ pc' = "forwarding"
            /\ UNCHANGED response
    /\ UNCHANGED <<uiVars, utilVars, route, env, body, query, console, outcomes, similarDocs, elapsed, target>>

\* the backend fetch of the forwarding route settles
ForwardReturn ==
    /\ route = "forward"
    /\ pc = "forwarding"
    /\ \E o \in FetchOutcomes, data \in BackendDatas, st \in BackendErrorStatuses,
          errorData \in BackendErrorTexts :
        /\ outcomes' = [outcomes EXCEPT !.backend = o]
        /\ CASE o = "ok" -> Respond(PassThrough(data))
             [] o = "not_ok" -> Respond(BackendErrorResponse(st, errorData))
             [] o = "reject" -> Respond(RouteErrorResponse("fetch failed"))
             [] OTHER -> Respond(RouteErrorResponse("Unexpected token in JSON"))
    /\ UNCHANGED <<uiVars, utilVars, route, env, body, query, console, calls, similarDocs, elapsed, target>>

----------------------------------------------------------------------------

Pending == pc \notin {"received", "responded"}

\* time passes while an external call is outstanding
Tick ==
    /\ Pending
    /\ elapsed < MaxTicks * TickMs
    /\ elapsed' = elapsed + TickMs
    /\ UNCHANGED <<uiVars, utilVars, route, env, body, pc, query, console, calls, outcomes, similarDocs, response,
                   target>>

Next ==
    \/ DirectReceive
    \/ EmbedReturn
    \/ SearchReturn
    \/ FallbackReturn
    \/ GenerateReturn
    \/ ProxyReceive
    \/ BackendReturn
    \/ ForwardReceive
    \/ ForwardReturn
    \/ Tick

Spec == Init /\ [][Next]_vars

----------------------------------------------------------------------------
(* The page, the chat history sidebar and the backend they talk to *)

\* message.includes(pattern), for strings kept as sequences of parts
Includes(msg, pattern) ==
    \E i \in 1..(Len(msg) - Len(pattern) + 1) :
        SubSeq(msg, i, i + Len(pattern) - 1) = pattern

\* useEffect: if (selectedSessionId && loadingSessionId === selectedSessionId) clear it
SpinnerAfter(sel, spin) == IF sel # NoSession /\ spin = sel THEN NoSession ELSE spin

\* a fetch of the page that has been started and has not settled
NoResp ==
    [status |-> 0, statusText |-> "", json |-> FALSE, detail |-> <<>>, data |-> NullResult,
     sessions |-> <<>>, storage_available |-> TRUE]

Request(rid, kind, text, id, sel) ==
    [rid |-> rid, kind |-> kind, text |-> text, id |-> id, sel |-> sel, phase |-> "sent",
     resp |-> NoResp]

Answered(r, resp) == [r EXCEPT !.phase = "answered", !.resp = resp]

Ok(resp) == resp.status \in 200..299

\* fetch(...) of the page: the request leaves and gets the next number
Send(kind, text, id, sel) ==
    /\ nextRid <= MaxRequests
    /\ inflight' = inflight \cup {Request(nextRid, kind, text, id, sel)}
    /\ nextRid' = nextRid + 1

\* the rejections of fetch: no connection, or the signal of AbortSignal.timeout fired
NetworkError == [name |-> "TypeError", message |-> <<"Failed to ", "fetch">>]
TimeoutError == [name |-> "TimeoutError", message |-> <<"signal timed out">>]

\* let enhancedError = errorMessage; if (err.name === 'AbortError') ... else if (includes('fetch'))
enhancedError(err) ==
    IF err.name = "AbortError"
    THEN <<"Query timed out. Please try again with a shorter question.">>
    ELSE IF Includes(err.message, <<"fetch">>)
         THEN <<"Unable to connect to the backend. Please check if the service is running.">>
         ELSE err.message

\* handleSubmit of QueryInterface and handleQuery up to its await of fetch
SubmitQuery ==
    \E input \in InputTexts :
        /\ Trim(input) # <<>>
        /\ ~loading
        /\ loading' = TRUE
        /\ error' = NoError
        /\ result' = NullResult
        /\ selectedSessionId' = NoSession
        /\ Send("query", Trim(input), NoSession, NoSession)
        /\ UNCHANGED <<routeVars, utilVars, sidebarRefreshTrigger, sidebarVars, backendVars, history>>

\* the id the backend hands out when it cannot reach the session store
LocalId(rid) == 100 + rid

\* SessionStore.save: the id of the next session
NewId == Cardinality(history.saved) + 1

AnswerText == <<"Circular economy is a model of production and consumption.">>

QueryErrorDetails ==
    { <<"Query processing failed">>, <<"Failed to ", "fetch", " documents">> }

\* SessionStore.save(s): keep the session, or do nothing while the store is unavailable
Save(s) ==
    IF storageUp
    THEN /\ store' = <<s>> \o store
         /\ history' = [history EXCEPT !.saved = @ \cup {s}]
    ELSE UNCHANGED <<store, history>>

\* the session_id of an answer: the id of the saved session, or a locally generated id or
\* none while the store is unavailable
SavedIds(r) == IF storageUp THEN {NewId} ELSE {LocalId(r.rid), NoSession}

\* the backend's response reaches the network
Reply(r, resp) == inflight' = (inflight \ {r}) \cup {Answered(r, resp)}

OkResponse == [NoResp EXCEPT !.status = 200, !.statusText = "OK", !.json = TRUE]

\* the non-success and unreadable responses of POST /query
QueryErrorResponses ==
    { [NoResp EXCEPT !.status = 500, !.statusText = "Internal Server Error", !.json = TRUE,
                     !.detail = d] : d \in QueryErrorDetails }
    \cup
    { [NoResp EXCEPT !.status = 502, !.statusText = "Bad Gateway"],
      [NoResp EXCEPT !.status = 200, !.statusText = "OK"] }

\* POST /query of the backend: answer, save the session best-effort, respond
ServerQuery ==
    \E r \in inflight :
        /\ r.kind = "query" /\ r.phase = "sent"
        /\ \/ \E n \in ChunkCounts, sid \in SavedIds(r) :
                /\ Reply(r, [OkResponse EXCEPT
                                !.data = [isNull |-> FALSE, answer |-> AnswerText,
                                          chunks |-> PageChunks(n), session_id |-> sid,
                                          query |-> <<>>],
                                !.storage_available = storageUp])
                /\ Save([id |-> NewId, query |-> r.text, answer |-> AnswerText,
                         chunks |-> PageChunks(n)])
           \/ /\ \E resp \in QueryErrorResponses : Reply(r, resp)
              /\ UNCHANGED <<store, history>>
        /\ UNCHANGED <<routeVars, utilVars, pageVars, sidebarVars, storageUp, nextRid>>

\* errorData.detail || `Server error: ${response.status} - ${response.statusText}`
ErrorDetail(resp) ==
    IF ~resp.json
    THEN <<"HTTP ", ToString(resp.status), ": ", resp.statusText>>
    ELSE IF resp.detail # <<>>
         THEN resp.detail
         ELSE <<"Server error: ", ToString(resp.status), " - ", resp.statusText>>

\* a page that shows an answer only when it came with a session id
ShownResultNeedsSession(data) == IF data.session_id # NoSession THEN data ELSE NullResult

\* setResult(data)
ShownResult(data) == data

\* handleQuery from the settled fetch to the end of its finally block
QueryReceive ==
    \E r \in inflight :
        /\ r.kind = "query" /\ r.phase = "answered"
        /\ inflight' = inflight \ {r}
        /\ IF ~Ok(r.resp)
           THEN /\ error' = enhancedError([name |-> "Error", message |-> ErrorDetail(r.resp)])
                /\ UNCHANGED <<result, selectedSessionId, sidebarRefreshTrigger,
                               loadingSessionId>>
           ELSE IF ~r.resp.json
           THEN /\ error' = enhancedError([name |-> "SyntaxError",
                                           message |-> <<"Unexpected token < in JSON">>])
                /\ UNCHANGED <<result, selectedSessionId, sidebarRefreshTrigger,
                               loadingSessionId>>
           ELSE /\ result' = ShownResult(r.resp.data)
                /\ IF r.resp.data.session_id # NoSession
                   THEN /\ selectedSessionId' = r.resp.data.session_id
                        /\ sidebarRefreshTrigger' = sidebarRefreshTrigger + 1
                        /\ loadingSessionId' =
                               SpinnerAfter(r.resp.data.session_id, loadingSessionId)
                   ELSE UNCHANGED <<selectedSessionId, sidebarRefreshTrigger,
                                    loadingSessionId>>
                /\ UNCHANGED error
        /\ loading' = FALSE
        /\ UNCHANGED <<routeVars, utilVars, sessions, sbLoading, sbError, deletingSessionId,
                       showDeleteConfirm, refreshSeen, backendVars, nextRid, history>>

\* a handleQuery whose catch block is not followed by the finally block
QueryFailKeepsLoading ==
    \E r \in inflight, err \in {NetworkError, TimeoutError} :
        /\ r.kind = "query"
        /\ inflight' = inflight \ {r}
        /\ error' = enhancedError(err)
        /\ UNCHANGED <<routeVars, utilVars, result, loading, selectedSessionId, sidebarRefreshTrigger,
                       sidebarVars, backendVars, nextRid, history>>

\* handleQuery when its fetch rejects: catch, then finally
QueryFail ==
    \E r \in inflight, err \in {NetworkError, TimeoutError} :
        /\ r.kind = "query"
        /\ inflight' = inflight \ {r}
        /\ error' = enhancedError(err)
        /\ loading' = FALSE
        /\ UNCHANGED <<routeVars, utilVars, result, selectedSessionId, sidebarRefreshTrigger, sidebarVars,
                       backendVars, nextRid, history>>

Ids(list) == {list[i].id : i \in DOMAIN list}

\* prev.filter(session => session.id !== sessionId)
RECURSIVE Without(_, _)
Without(list, id) ==
    IF list = <<>> THEN <<>>
    ELSE IF Head(list).id = id THEN Without(Tail(list), id)
         ELSE <<Head(list)>> \o Without(Tail(list), id)

\* the session rows are rendered: the sidebar is neither loading nor showing its error
ListShown == ~sbLoading /\ sbError = NoError

\* fetchSessions up to its await of fetch; run by the effect on refreshTrigger and by the
\* refresh and retry buttons
FetchSessions ==
    /\ refreshSeen # sidebarRefreshTrigger \/ ~sbLoading
    /\ refreshSeen' = sidebarRefreshTrigger
    /\ sbLoading' = TRUE
    /\ sbError' = NoError
    /\ Send("list", <<>>, NoSession, NoSession)
    /\ UNCHANGED <<routeVars, utilVars, pageVars, sessions, loadingSessionId, deletingSessionId,
                   showDeleteConfirm, backendVars, history>>

\* GET /user/current/sessions of the backend
ServerList ==
    \E r \in inflight :
        /\ r.kind = "list" /\ r.phase = "sent"
        /\ \/ Reply(r, [OkResponse EXCEPT !.sessions = Summaries(store),
                                          !.storage_available = storageUp])
           \/ /\ ~storageUp
              /\ Reply(r, [NoResp EXCEPT !.status = 503, !.statusText = "Service Unavailable",
                                         !.json = TRUE])
        /\ UNCHANGED <<routeVars, utilVars, pageVars, sidebarVars, backendVars, nextRid, history>>

\* the catch block of fetchSessions
SessionsError(msg) ==
    IF Includes(msg, <<"Failed to ", "fetch">>)
    THEN <<"Unable to connect to chat history service. Please check your connection.">>
    ELSE IF Includes(msg, <<"503">>)
         THEN <<"Chat history service is temporarily unavailable. Please try again later.">>
         ELSE msg

\* fetchSessions from the settled fetch to the end of its finally block
ListReceive ==
    \E r \in inflight :
        /\ r.kind = "list" /\ r.phase = "answered"
        /\ inflight' = inflight \ {r}
        /\ IF Ok(r.resp)
           THEN /\ sessions' = r.resp.sessions
                /\ UNCHANGED sbError
           ELSE /\ sbError' = SessionsError(<<"Failed to ", "fetch", " sessions: ",
                                              ToString(r.resp.status), " ", r.resp.statusText>>)
                /\ UNCHANGED sessions
        /\ sbLoading' = FALSE
        /\ UNCHANGED <<routeVars, utilVars, pageVars, loadingSessionId, deletingSessionId,
                       showDeleteConfirm, refreshSeen, backendVars, nextRid, history>>

\* fetchSessions when its fetch rejects
ListFail ==
    \E r \in inflight :
        /\ r.kind = "list"
        /\ inflight' = inflight \ {r}
        /\ sbError' = SessionsError(NetworkError.message)
        /\ sbLoading' = FALSE
        /\ UNCHANGED <<routeVars, utilVars, pageVars, sessions, loadingSessionId, deletingSessionId,
                       showDeleteConfirm, refreshSeen, backendVars, nextRid, history>>

\* a session row can be clicked: in the expanded sidebar when the rows are rendered, in the
\* collapsed sidebar (sessions.slice(0, 3)) always; the user collapses and expands at will
RowShown(i) == ListShown \/ i <= CollapsedRows

\* handleSessionClick of the sidebar and handleSessionSelect up to its await of fetch
SelectSession ==
    \E i \in DOMAIN sessions :
        /\ RowShown(i)
        /\ loadingSessionId' = SpinnerAfter(selectedSessionId, sessions[i].id)
        /\ loading' = TRUE
        /\ error' = NoError
        /\ Send("select", <<>>, sessions[i].id, NoSession)
        /\ UNCHANGED <<routeVars, utilVars, result, selectedSessionId, sidebarRefreshTrigger, sessions,
                       sbLoading, sbError, deletingSessionId, showDeleteConfirm, refreshSeen,
                       backendVars, history>>

\* setTimeout(() => setLoadingSessionId(null), 5000)
SpinnerTimeout ==
    /\ loadingSessionId # NoSession
    /\ loadingSessionId' = NoSession
    /\ UNCHANGED <<routeVars, utilVars, pageVars, sessions, sbLoading, sbError, deletingSessionId,
                   showDeleteConfirm, refreshSeen, backendVars, netVars>>

\* SessionStore.get(id): the stored session with this id, if any
Stored(id) == {store[i] : i \in {j \in DOMAIN store : store[j].id = id}}

\* GET /session/{id} of the backend: the full session, or 404
ServerGet ==
    \E r \in inflight :
        /\ r.kind = "select" /\ r.phase = "sent"
        /\ IF Stored(r.id) # {}
           THEN LET s == CHOOSE s \in Stored(r.id) : TRUE
                IN Reply(r, [OkResponse EXCEPT
                                !.data = [isNull |-> FALSE, answer |-> s.answer,
                                          chunks |-> s.chunks, session_id |-> s.id,
                                          query |-> s.query]])
           ELSE Reply(r, [NoResp EXCEPT !.status = 404, !.statusText = "Not Found",
                                        !.json = TRUE, !.detail = <<"Session not found">>])
        /\ history' = [history EXCEPT !.gets = @ \cup
                          {[id |-> r.id, status |-> IF Stored(r.id) # {} THEN 200 ELSE 404,
                            deleted |-> r.id \in history.deleted]}]
        /\ UNCHANGED <<routeVars, utilVars, pageVars, sidebarVars, backendVars, nextRid>>

\* a page that shows a loaded session without its chunks
SessionResultNoChunks(fullSessionData) == [fullSessionData EXCEPT !.chunks = <<>>]

\* { answer: fullSessionData.answer, chunks: fullSessionData.chunks || [],
\*   session_id: fullSessionData.id, query: fullSessionData.query }
SessionResult(fullSessionData) ==
    [isNull |-> FALSE, answer |-> fullSessionData.answer, chunks |-> fullSessionData.chunks,
     session_id |-> fullSessionData.session_id, query |-> fullSessionData.query]

\* handleSessionSelect from the settled fetch to the end of its finally block
SelectReceive ==
    \E r \in inflight :
        /\ r.kind = "select" /\ r.phase = "answered"
        /\ inflight' = inflight \ {r}
        /\ IF Ok(r.resp)
           THEN /\ result' = SessionResult(r.resp.data)
                /\ selectedSessionId' = r.id
                /\ loadingSessionId' = SpinnerAfter(r.id, loadingSessionId)
                /\ UNCHANGED error
           ELSE /\ error' = <<"Failed to load conversation: ", "Failed to load session: ",
                              ToString(r.resp.status), " ", r.resp.statusText>>
                /\ UNCHANGED <<result, selectedSessionId, loadingSessionId>>
        /\ loading' = FALSE
        /\ UNCHANGED <<routeVars, utilVars, sidebarRefreshTrigger, sessions, sbLoading, sbError,
                       deletingSessionId, showDeleteConfirm, refreshSeen, backendVars, nextRid,
                       history>>

\* handleSessionSelect when its fetch rejects
SelectFail ==
    \E r \in inflight :
        /\ r.kind = "select"
        /\ inflight' = inflight \ {r}
        /\ error' = <<"Failed to load conversation: ">> \o NetworkError.message
        /\ loading' = FALSE
        /\ UNCHANGED <<routeVars, utilVars, result, selectedSessionId, sidebarRefreshTrigger, sidebarVars,
                       backendVars, nextRid, history>>

\* handleDeleteClick: the delete button of a row, disabled while that row is being deleted
ClickDelete ==
    \E i \in DOMAIN sessions :
        /\ ListShown
        /\ deletingSessionId # sessions[i].id
        /\ showDeleteConfirm' = sessions[i].id
        /\ UNCHANGED <<routeVars, utilVars, pageVars, sessions, sbLoading, sbError, loadingSessionId,
                       deletingSessionId, refreshSeen, backendVars, netVars>>

\* the confirmation dialog of a row is rendered
DialogShown == ListShown /\ showDeleteConfirm \in Ids(sessions)

\* cancelDelete
CancelDelete ==
    /\ DialogShown
    /\ showDeleteConfirm' = NoSession
    /\ UNCHANGED <<routeVars, utilVars, pageVars, sessions, sbLoading, sbError, loadingSessionId,
                   deletingSessionId, refreshSeen, backendVars, netVars>>

\* confirmDelete up to its await of fetch; the onSessionDeleted it will call is the
\* handleSessionDeleted of the current render, which has read selectedSessionId
ConfirmDelete ==
    /\ DialogShown
    /\ deletingSessionId' = showDeleteConfirm
    /\ showDeleteConfirm' = NoSession
    /\ Send("delete", <<>>, showDeleteConfirm, selectedSessionId)
    /\ UNCHANGED <<routeVars, utilVars, pageVars, sessions, sbLoading, sbError, loadingSessionId,
                   refreshSeen, backendVars, history>>

\* a delete that leaves the session in the store
RemoveNothing(st, id) == st

\* SessionStore.delete(id)
Remove(st, id) == Without(st, id)

\* DELETE /session/{id} of the backend: 200 on success, 404 if absent
ServerDelete ==
    \E r \in inflight :
        /\ r.kind = "delete" /\ r.phase = "sent"
        /\ IF Stored(r.id) # {}
           THEN /\ store' = Remove(store, r.id)
                /\ history' = [history EXCEPT !.deleted = @ \cup {r.id}]
                /\ Reply(r, OkResponse)
           ELSE /\ Reply(r, [NoResp EXCEPT !.status = 404, !.statusText = "Not Found",
                                           !.json = TRUE, !.detail = <<"Session not found">>])
                /\ UNCHANGED <<store, history>>
        /\ UNCHANGED <<routeVars, utilVars, pageVars, sidebarVars, storageUp, nextRid>>

\* confirmDelete from the settled fetch to the end of its finally block, with the
\* handleSessionDeleted of the page it calls on success
DeleteReceive ==
    \E r \in inflight :
        /\ r.kind = "delete" /\ r.phase = "answered"
        /\ inflight' = inflight \ {r}
        /\ IF Ok(r.resp)
           THEN /\ sessions' = Without(sessions, r.id)
                /\ UNCHANGED sbError
                /\ IF r.sel = r.id
                   THEN /\ result' = NullResult
                        /\ selectedSessionId' = NoSession
                        /\ error' = NoError
                   ELSE UNCHANGED <<result, selectedSessionId, error>>
           ELSE /\ sbError' = <<"Failed to delete conversation: ", "Failed to delete session: ",
                                ToString(r.resp.status), " ", r.resp.statusText>>
                /\ UNCHANGED <<sessions, result, selectedSessionId, error>>
        /\ deletingSessionId' = NoSession
        /\ UNCHANGED <<routeVars, utilVars, loading, sidebarRefreshTrigger, sbLoading, loadingSessionId,
                       showDeleteConfirm, refreshSeen, backendVars, nextRid, history>>

\* a confirmDelete that removes the row although its fetch rejected
DeleteFailRemoves ==
    \E r \in inflight :
        /\ r.kind = "delete"
        /\ inflight' = inflight \ {r}
        /\ sessions' = Without(sessions, r.id)
        /\ sbError' = <<"Failed to delete conversation: ">> \o NetworkError.message
        /\ deletingSessionId' = NoSession
        /\ UNCHANGED <<routeVars, utilVars, pageVars, sbLoading, loadingSessionId,
                       showDeleteConfirm, refreshSeen, backendVars, nextRid, history>>

\* confirmDelete when its fetch rejects
DeleteFail ==
    \E r \in inflight :
        /\ r.kind = "delete"
        /\ inflight' = inflight \ {r}
        /\ sbError' = <<"Failed to delete conversation: ">> \o NetworkError.message
        /\ deletingSessionId' = NoSession
        /\ UNCHANGED <<routeVars, utilVars, pageVars, sessions, sbLoading, loadingSessionId,
                       showDeleteConfirm, refreshSeen, backendVars, nextRid, history>>

\* the route variables while the page is followed
RouteIdle ==
    /\ route = "direct"
    /\ env = [GEMINI_API_KEY |-> TRUE, SUPABASE |-> TRUE, NODE_ENV |-> "development",
              VERCEL |-> Undefined, VERCEL_URL |-> Undefined]
    /\ body = [kind |-> "object", query |-> QUndefined]
    /\ pc = "received"
    /\ query = QUndefined
    /\ console = <<>>
    /\ calls = NoCalls
    /\ outcomes = NoOutcomes
    /\ similarDocs = NoChunks
    /\ response = NoResponse
    /\ elapsed = 0
    /\ target = "none"

InitPage ==
    /\ RouteIdle
    /\ \E up, listed \in BOOLEAN : (listed => up) /\ PageMounted(up, listed)
    /\ UtilsLoaded

NextPage ==
    \/ SubmitQuery
    \/ ServerQuery
    \/ QueryReceive
    \/ QueryFail
    \/ FetchSessions
    \/ ServerList
    \/ ListReceive
    \/ ListFail
    \/ SelectSession
    \/ SpinnerTimeout
    \/ ServerGet
    \/ SelectReceive
    \/ SelectFail
    \/ ClickDelete
    \/ CancelDelete
    \/ ConfirmDelete
    \/ ServerDelete
    \/ DeleteReceive
    \/ DeleteFail

SpecPage == InitPage /\ [][NextPage]_vars

\* the fetch of handleQuery settles: AbortSignal.timeout(60000) rejects it after 60 s at the
\* latest, and the event loop then runs the rest of handleQuery
QuerySettles == QueryReceive \/ QueryFail

FairSpecPage == SpecPage /\ WF_vars(QuerySettles)

----------------------------------------------------------------------------
(* The logger *)

\* the public methods debug, info, warn and error, each a call of log; the level is open
\* for the first calls and "info" afterwards
LogCall ==
    \E i \in DOMAIN Levels :
        /\ logged < MaxLogCalls
        /\ logged >= FreeCalls => Levels[i] = "info"
        /\ logs' = Logged(logs, logged + 1, Levels[i], "ui", "entry")
        /\ logged' = logged + 1
        /\ UNCHANGED <<routeVars, uiVars, testerVars>>

InitLogger ==
    /\ RouteIdle
    /\ PageMounted(TRUE, FALSE)
    /\ UtilsLoaded

NextLogger == LogCall

SpecLogger == InitLogger /\ [][NextLogger]_vars

----------------------------------------------------------------------------
(* The connection tester *)

Msg(level, category, message) == [level |-> level, category |-> category, message |-> message]

RECURSIVE LoggedAll(_, _, _)
LoggedAll(l, n, msgs) ==
    IF msgs = <<>> THEN l
    ELSE LoggedAll(Logged(l, n + 1, Head(msgs).level, Head(msgs).category, Head(msgs).message),
                   n + 1, Tail(msgs))

\* the calls of logger.info and logger.error a step makes, in order
Log(msgs) ==
    /\ logs' = LoggedAll(logs, logged, msgs)
    /\ logged' = logged + Len(msgs)

\* GET /health of the backend as the tester's fetch settles it: a body with status healthy
\* or unhealthy and pipeline_initialized under a success or an error status, an error
\* status or a success status without a JSON body, a network failure, the timeout
HealthResponses ==
    { [outcome |-> "answered", status |-> st, json |-> TRUE, body |-> HealthBody(h, pi)] :
          st \in {200, 503}, h \in {"healthy", "unhealthy"}, pi \in {"true", "false"} }
    \cup { [outcome |-> "answered", status |-> st, json |-> FALSE, body |-> NoBody] :
               st \in {200, 500} }
    \cup { [outcome |-> o, status |-> 0, json |-> FALSE, body |-> NoBody] :
               o \in {"network", "timeout"} }

\* error.message of the rejection of fetch or of response.json()
RejectionMessage(resp) ==
    IF resp.outcome = "network" THEN NetworkError.message
    ELSE IF resp.outcome = "timeout" THEN TimeoutError.message
    ELSE <<"Unexpected token">>

\* the fetch or the reading of the body throws
Throws(resp) == resp.outcome # "answered" \/ (Ok(resp) /\ ~resp.json)

\* the BackendHealthStatus testBackendHealth returns
HealthStatus(resp) ==
    IF Throws(resp)
    THEN [status |-> "unknown", pipeline_initialized |-> "undefined",
          error |-> RejectionMessage(resp)]
    ELSE IF ~Ok(resp)
    THEN [status |-> "unhealthy", pipeline_initialized |-> "undefined",
          error |-> <<"Health check failed with status ", ToString(resp.status)>>]
    ELSE [status |-> "healthy", pipeline_initialized |-> resp.body.pipeline_initialized,
          error |-> <<>>]

\* the entry testBackendHealth logs when its fetch has settled
HealthLog(resp) ==
    IF Throws(resp) THEN Msg("error", "backend", "Backend health check failed")
    ELSE IF ~Ok(resp) THEN Msg("error", "backend", "Health check failed with status")
    ELSE Msg("info", "backend", "Backend health check successful")

\* POST /query of the backend as the tester's fetch settles it
ApiResponses ==
    { [outcome |-> "answered", status |-> 200, json |-> TRUE, body |-> NoBody],
      [outcome |-> "answered", status |-> 500, json |-> FALSE, body |-> NoBody],
      [outcome |-> "network", status |-> 0, json |-> FALSE, body |-> NoBody] }

\* the ConnectionTestResult testBackendAPI returns
ApiResult(resp) ==
    IF Throws(resp)
    THEN [success |-> FALSE, status |-> 0, error |-> RejectionMessage(resp),
          healthCheck |-> FALSE]
    ELSE IF ~Ok(resp)
    THEN [success |-> FALSE, status |-> resp.status,
          error |-> <<"API test failed with status ", ToString(resp.status), ": ">>,
          healthCheck |-> FALSE]
    ELSE [success |-> TRUE, status |-> resp.status, error |-> <<>>, healthCheck |-> TRUE]

\* the entry testBackendAPI logs when its fetch has settled
ApiLog(resp) ==
    IF Throws(resp) THEN Msg("error", "api", "Backend API test failed")
    ELSE IF ~Ok(resp) THEN Msg("error", "api", "API test failed with status")
    ELSE Msg("info", "api", "Backend API test successful")

HealthStarted == Msg("info", "backend", "Testing backend health...")
ApiStarted == Msg("info", "api", "Testing backend API...")

\* testBackendHealth up to its await of fetch
HealthStart ==
    /\ tpc = "idle"
    /\ checks < MaxChecks
    /\ checks' = checks + 1
    /\ tpc' = "health"
    /\ Log(<<HealthStarted>>)
    /\ UNCHANGED <<routeVars, uiVars, healthSeen, healthResult, apiResult, overall>>

\* testBackendAPI up to its await of fetch
ApiStart ==
    /\ tpc = "idle"
    /\ checks < MaxChecks
    /\ checks' = checks + 1
    /\ tpc' = "api"
    /\ Log(<<ApiStarted>>)
    /\ UNCHANGED <<routeVars, uiVars, healthSeen, healthResult, apiResult, overall>>

\* runFullConnectionTest up to the await of fetch in testBackendHealth
FullStart ==
    /\ tpc = "idle"
    /\ checks < MaxChecks
    /\ checks' = checks + 1
    /\ tpc' = "full_health"
    /\ Log(<<Msg("info", "network", "Running comprehensive connection test..."),
             HealthStarted>>)
    /\ UNCHANGED <<routeVars, uiVars, healthSeen, healthResult, apiResult, overall>>

\* testBackendHealth from the settled fetch to its return; within runFullConnectionTest
\* testBackendAPI then runs up to its await of fetch
HealthReturn ==
    /\ tpc \in {"health", "full_health"}
    /\ \E resp \in HealthResponses :
        /\ healthSeen' = resp
        /\ healthResult' = HealthStatus(resp)
        /\ IF tpc = "health"
           THEN /\ tpc' = "idle"
                /\ Log(<<HealthLog(resp)>>)
           ELSE /\ tpc' = "full_api"
                /\ Log(<<HealthLog(resp), ApiStarted>>)
    /\ UNCHANGED <<routeVars, uiVars, apiResult, overall, checks>>

\* testBackendAPI from the settled fetch to its return; within runFullConnectionTest the
\* overall verdict and the summary follow
ApiReturn ==
    /\ tpc \in {"api", "full_api"}
    /\ \E resp \in ApiResponses :
        /\ apiResult' = ApiResult(resp)
        /\ IF tpc = "api"
           THEN /\ Log(<<ApiLog(resp)>>)
                /\ UNCHANGED overall
           ELSE /\ overall' = (healthResult.status = "healthy" /\ ApiResult(resp).success)
                /\ Log(<<ApiLog(resp),
                         Msg("info", "network",
                             IF healthResult.status = "healthy" /\ ApiResult(resp).success
                             THEN "All tests passed" ELSE "Tests failed")>>)
    /\ tpc' = "idle"
    /\ UNCHANGED <<routeVars, uiVars, healthSeen, healthResult, checks>>

InitTester ==
    /\ RouteIdle
    /\ PageMounted(TRUE, FALSE)
    /\ UtilsLoaded

NextTester ==
    \/ HealthStart
    \/ ApiStart
    \/ FullStart
    \/ HealthReturn
    \/ ApiReturn

SpecTester == InitTester /\ [][NextTester]_vars

----------------------------------------------------------------------------
(* Properties of the query routes *)

Contains(parts, x) == \E i \in DOMAIN parts : parts[i] = x

IsNonEmptyString(q) == q.t = "string" /\ q.v # ""

FailedFetch == {"reject", "not_ok", "ok_malformed"}

\* an external stage of the request failed and nothing recovered it
StageFailed ==
    \/ /\ route = "direct"
       /\ \/ ~env.GEMINI_API_KEY
          \/ outcomes.embed = "ok" /\ ~env.SUPABASE
          \/ outcomes.embed \in FailedFetch
          \/ outcomes.search \in {"reject", "not_ok_unreadable", "ok_malformed"}
          \/ outcomes.fallback \in FailedFetch
          \/ outcomes.generate \in FailedFetch
    \/ /\ route = "proxy"
       /\ outcomes.backend \in FailedFetch

\* C1: when embedding, retrieval or generation (or the backend call of the
\* proxy route) fails unrecoverably for a request with a non-empty query
\* string, the response is the fixed apology that contains the literal query,
\* with an empty chunk list and error_fallback = true.
C1_FailureYieldsApology ==
    (StageFailed /\ IsNonEmptyString(query)) =>
        /\ pc = "responded"
        /\ response.error_fallback = TRUE
        /\ response.chunks = <<>>
        /\ Len(response.answer) = 3
        /\ response.answer[1] = "I encountered an issue accessing the document database for your query \""
        /\ response.answer[2] = body.query.v
        /\ Contains(response.answer, body.query.v)

C1_Witness ==
    /\ route = "direct"
    /\ outcomes.embed = "reject"
    /\ query = QString("What is circular economy?")
    /\ response.error_fallback = TRUE

C3_InvalidRejectedBeforePipeline ==
    (route \in {"direct", "proxy"} /\ pc # "received"
        /\ body.kind = "object" /\ ~IsNonEmptyString(body.query)) =>
        /\ response.status = 400
        /\ calls = NoCalls

RetrievalDone == outcomes.search = "ok" \/ outcomes.fallback = "ok"

\* C4: when retrieval yields an empty chunk list, the generation API is
\* never called for the request and the answer returned is the canned
\* insufficient-information text.
C4_EmptyRetrievalSkipsGeneration ==
    (route = "direct" /\ RetrievalDone /\ outcomes.rows = <<>>) =>
        /\ calls.generate = 0
        /\ pc = "responded"
        /\ response.status = 200
        /\ response.chunks = <<>>
        /\ response.answer =
             <<"I do not have enough information to answer your question. No relevant documents were found.">>

C4_Witness ==
    /\ route = "direct"
    /\ outcomes.search = "ok"
    /\ outcomes.rows = <<>>
    /\ pc = "responded"

\* the chunk the route returns for a row of the store
ExpectedChunk(r) ==
    [content |-> Undefined,
     document |-> IF r.content \in {Undefined, ""} THEN "" ELSE r.content,
     metadata |-> IF r.metadata = Undefined THEN "{}" ELSE r.metadata]

NormalWithRows(rows) ==
    /\ response.status = 200
    /\ response.error_fallback = FALSE
    /\ Len(response.chunks) = Len(rows)
    /\ \A i \in 1..Len(rows) : response.chunks[i] = ExpectedChunk(rows[i])
    /\ Len(response.answer) = 1
    /\ response.answer \in {<<t>> : t \in GeneratedTexts}

FallbackSucceeded ==
    route = "direct" /\ pc = "responded" /\ outcomes.search = "not_ok" /\ outcomes.fallback = "ok"

\* C5 as stated: when the primary RPC returns an error and the fallback
\* retrieval succeeds, the request completes normally with the fallback's
\* chunks and a generated answer, without error_fallback.
C5_Original ==
    FallbackSucceeded =>
        /\ outcomes.generate = "ok"
        /\ NormalWithRows(outcomes.rows)

\* C5 amended: when the primary RPC returns an error status and the fallback
\* retrieval succeeds, the request goes on as after a primary success: with at
\* least one fallback row generation is called and, when it succeeds, the
\* response carries the fallback's chunks and the generated answer without
\* error_fallback; with no row the canned answer is returned without
\* error_fallback; error_fallback appears only when generation itself fails.
C5_FallbackCompletesNormally ==
    FallbackSucceeded =>
        IF outcomes.rows = <<>>
        THEN response = NoDocsResponse
        ELSE /\ calls.generate = 1
             /\ IF outcomes.generate = "ok"
                THEN NormalWithRows(outcomes.rows)
                ELSE /\ outcomes.generate \in FailedFetch
                     /\ response.error_fallback = TRUE

C5_Witness ==
    /\ FallbackSucceeded
    /\ Len(outcomes.rows) = 2
    /\ outcomes.generate = "ok"
    /\ response.error_fallback = FALSE
    /\ Len(response.chunks) = 2

C7_EveryPrimaryFailureFallsBack ==
    (route = "direct" /\ outcomes.search \in SearchOutcomes \ {"ok"}) =>
        /\ calls.fallback = 1
        /\ (pc = "responded" /\ response.error_fallback) => outcomes.fallback # "none"

ErrorTexts ==
    BackendErrorTexts \cup
    { "Unexpected token in JSON", "Cannot read properties of null (reading 'query')",
      "fetch failed" }

\* C8: no response, at any status code, contains raw provider or backend
\* error text or an exception message.
C8_NoRawErrorText ==
    response.status # 0 =>
        \A t \in ErrorTexts : ~Contains(response.detail, t) /\ ~Contains(response.answer, t)

StageOf(line) ==
    CASE line = LogEmbedding -> "embedding"
      [] line = LogSearching -> "retrieving"
      [] line = LogGenerating -> "generating"
      [] OTHER -> "none"

IsStageLine(line) == StageOf(line) # "none"

\* the stages the request has entered, in order
StageTrace ==
    LET ls == SelectSeq(console, IsStageLine)
    IN  [i \in 1..Len(ls) |-> StageOf(ls[i])]

IsPrefix(a, b) == Len(a) <= Len(b) /\ \A i \in 1..Len(a) : a[i] = b[i]

Done == pc = "responded" /\ response.status = 200 /\ ~response.error_fallback

C10_TimeoutEndsInFallback ==
    elapsed > QueryTimeoutMs =>
        /\ pc = "responded"
        /\ response.error_fallback = TRUE

\* C11: no successful response carries an empty answer: when the generation
\* call fails or yields no answer text, the request ends in error_fallback
\* with the templated message naming the query.
C11_NoEmptyAnswer ==
    (route = "direct" /\ pc = "responded" /\ outcomes.generate # "none") =>
        IF response.error_fallback
        THEN response.answer[2] = query.v
        ELSE /\ outcomes.generate = "ok"
             /\ response.answer # <<"">>

\* C12: for the requested k = 5, search returns at most k chunks, on the
\* primary path and on the fallback path alike, whatever number of rows the
\* store answers with.
C12_AtMostKChunks ==
    (route = "direct" /\ RetrievalDone) => Len(similarDocs) <= K

\* C14: when a request ends in error_fallback, a best-effort attempt to
\* persist the session is still made for that request.
C14_FallbackStillPersists ==
    (route \in {"direct", "proxy"} /\ pc = "responded" /\ response.error_fallback) =>
        calls.persist > 0

\* C15: every request that completes normally (retrieval found chunks,
\* generation succeeded) returns a non-null session_id.
C15_SessionIdNonNull ==
    (route = "direct" /\ Done /\ outcomes.generate = "ok") =>
        response.session_id # "null"

BackendAnswered == route = "proxy" /\ pc = "responded" /\ outcomes.backend = "ok"

C19_PythonFunctionIffVercel ==
    (route = "proxy" /\ target # "none") =>
        (target = "python_function" <=> env.VERCEL = "1")

----------------------------------------------------------------------------
(* Properties of the page and the session store *)

\* the query responses a step of handleQuery has taken from the network
Delivered == {r \in inflight \ inflight' : r.kind = "query" /\ Ok(r.resp) /\ r.resp.json}

SavedAs(id) == {s \in history.saved : s.id = id}

SameSession(data, s) ==
    /\ data.query = s.query
    /\ data.answer = s.answer
    /\ Len(data.chunks) = Len(s.chunks)

\* a past conversation is displayed: only handleSessionSelect sets result.query
SessionDisplayed == ~result.isNull /\ result.query # <<>>

C18_DeletedSessionNotFound ==
    /\ \A g \in history.gets : g.deleted => g.status = 404
    /\ \A id \in history.deleted : Stored(id) = {}

\* a session was deleted, a later load of it was answered 404, and the page reports it
C18_Witness ==
    /\ 1 \in history.deleted
    /\ [id |-> 1, status |-> 404, deleted |-> TRUE] \in history.gets
    /\ error = <<"Failed to load conversation: ", "Failed to load session: ", "404", " ",
                 "Not Found">>
    /\ ~loading

QueryPending == \E r \in inflight : r.kind = "query"

\* C20: whatever the outcome of a submitted query (an answer, an error status, a network
\* failure, the timeout), the page's loading state is cleared in the end, which enables the
\* query input again (disabled={loading}).
C20_LoadingEventuallyCleared == QueryPending ~> ~loading

\* a query has run into the timeout and the input is enabled again
C20_Witness ==
    /\ error = TimeoutError.message
    /\ result.isNull
    /\ ~QueryPending
    /\ ~loading

\* the query responses with a non-success status and a JSON detail string that a step of
\* handleQuery has taken from the network
Refused ==
    {r \in inflight \ inflight' :
        r.kind = "query" /\ ~Ok(r.resp) /\ r.resp.json /\ r.resp.detail # <<>>}

\* C21: when the backend answers a query with a non-success status and a JSON body with a
\* detail string, the page ends with no result and with exactly that detail string as its
\* error message.
C21_ErrorDetailShown ==
    [][QueryReceive =>
          \A r \in Refused : error' = r.resp.detail /\ result'.isNull]_vars

\* the queries handleQuery has been called with and whose fetch has not settled
QueriesSent == {r.text : r \in {q \in inflight : q.kind = "query"}}

\* C22: the query form calls onQuery only with a non-empty query without surrounding
\* whitespace; an empty or whitespace-only input never reaches onQuery.
C22_OnlyTrimmedQueries ==
    \A text \in QueriesSent :
        /\ text # <<>>
        /\ ~IsSpace(Head(text))
        /\ ~IsSpace(text[Len(text)])
        /\ \E input \in InputTexts : text = TrimEnd(TrimStart(input))

\* the input " ce " has been submitted as "ce"
C22_Witness ==
    /\ loading
    /\ QueriesSent = {<<"c", "e">>}
    /\ <<" ", "c", "e", " ">> \in InputTexts

QueriesInFlight == {r \in inflight : r.kind = "query"}

\* C24: at most one query request is in flight at any time, and the submit control is
\* disabled (loading) for as long as a query request is in flight, also when a session
\* is loaded from the sidebar in between.
C24_OneQueryInFlight ==
    /\ Cardinality(QueriesInFlight) <= 1
    /\ QueriesInFlight # {} => loading


\* C27: the page never holds a result and an error message at the same time.
C27_ResultOrError == result.isNull \/ error = NoError

UserActions == {"query", "select"}

\* the requests of user actions whose response a handler takes in this step
Received == {r \in inflight \ inflight' : r.kind \in UserActions /\ r.phase = "answered"}

\* C25: the result and the selected session are only written by the response of the most
\* recently started user action: no response of a query or session load writes them
\* while a user action started later is still pending.
C25_LatestActionWins ==
    [][\A r \in Received :
           (result' # result \/ selectedSessionId' # selectedSessionId)
               => ~\E q \in inflight' : q.kind \in UserActions /\ q.rid > r.rid]_vars

\* the delete requests whose successful response the sidebar takes in this step
DeleteSucceeded == {r \in inflight \ inflight' : r.kind = "delete" /\ r.phase = "answered" /\ Ok(r.resp)}

\* C26: when the response of a successful DELETE has been handled, the session is neither
\* in the sidebar list nor selected nor displayed, also when a load of it was in flight.
C26_DeletedNeverShown ==
    [][DeleteReceive =>
           \A r \in DeleteSucceeded :
               /\ r.id \notin Ids(sessions')
               /\ selectedSessionId' # r.id
               /\ result'.session_id # r.id]_vars

\* the delete requests that settle in this step
DeleteSettled == {r \in inflight \ inflight' : r.kind = "delete" /\ (\A q \in inflight' : q.rid # r.rid)}

\* C28: the delete handlers of the sidebar change the session list only when the DELETE
\* returned success, and then remove exactly that session; a failed DELETE, a cancelled
\* or just opened confirmation leave the list unchanged.
C28_RemovedOnlyOnSuccess ==
    [][/\ \A r \in DeleteSettled :
              \/ sessions' = sessions
              \/ r.phase = "answered" /\ Ok(r.resp) /\ sessions' = Without(sessions, r.id)
       /\ showDeleteConfirm' # showDeleteConfirm => sessions' = sessions]_vars

\* a DELETE has failed and the session is still in the list
C28_Witness ==
    /\ sbError # NoError
    /\ Head(sbError) = "Failed to delete conversation: "
    /\ Ids(sessions) = {1}
    /\ deletingSessionId = NoSession
    /\ \A r \in inflight : r.kind # "delete"

----------------------------------------------------------------------------
(* The fallback indication of the backend *)

\* the route has answered with the answer of a fallback response of the backend
BackendFellBack ==
    /\ route \in {"proxy", "forward"}
    /\ outcomes.backend = "ok"
    /\ response.status = 200
    /\ \E d \in BackendDatas : d.error_fallback /\ d.hasChunks /\ d.answer = response.answer

\* C29: whenever the backend's response to the route is a fallback response
\* (error_fallback = true), the route's response to the caller has error_fallback = true.
C29_FallbackReachesCaller == BackendFellBack => response.error_fallback = TRUE

----------------------------------------------------------------------------
(* Properties of the logger and the connection tester *)

\* C23: after a call of log the store holds at most 1000 entries, and once 1000 calls
\* have been made it holds exactly the entries of the last 1000 calls, oldest first.
C23_LastThousandLogs ==
    /\ Len(logs) <= MaxLogs
    /\ Len(logs) = IF logged < MaxLogs THEN logged ELSE MaxLogs
    /\ \A i \in DOMAIN logs : logs[i].seq = logged - Len(logs) + i

\* the store has dropped its 50 oldest entries
C23_Witness ==
    /\ logged = MaxLogs + 50
    /\ Len(logs) = MaxLogs
    /\ logs[1].seq = 51
    /\ logs[MaxLogs].seq = MaxLogs + 50

\* C30: the tester reports healthy only when the health endpoint answered with a success
\* status and a body whose status is healthy; it never reports healthy for a backend
\* whose health response says unhealthy.
C30_HealthyOnlyIfBodyHealthy ==
    healthResult.status = "healthy" =>
        /\ healthSeen.outcome = "answered"
        /\ Ok(healthSeen)
        /\ healthSeen.body.status = "healthy"

====
